---- MODULE Spec2Model ----
(***************************************************************************)
(* LALR(1) parsing-table construction of parsing/lalr_one.py:              *)
(* get_canonical_collection (spontaneous lookaheads, propagation graph,    *)
(* fixed point, per-state closure) and ParsingTable.__setup_from_grammar   *)
(* (ACTION / GOTO), run on every well-formed grammar of a bounded size.    *)
(*                                                                         *)
(* Items are <<prod_index, dot>> with 0-based production indices as in the *)
(* source; a lookahead item is <<item, lookahead>>.  State ids are 0-based.*)
(***************************************************************************)
EXTENDS Integers, Sequences, FiniteSets

\* Largest total size of an input grammar: the sum over its productions of
\* 1 + the length of the body (the augmented production not counted).
MaxSize == 6

(***************************************************************************)
(* Grammar collaborator (parsing/grammar.py, not part of src/): symbols,   *)
(* productions, FIRST sets.                                                *)
(***************************************************************************)
NonTermNames == <<"S", "A">>
TermNames == <<"a">>

start == "$accept"
end_of_input == "$end"
free_symbol == "$#"
\* Python's None: the empty-derivation marker of first_set, and an unset
\* goto cell.
None == "$None"

Range(s) == {s[i] : i \in 1..Len(s)}

Syms == Range(NonTermNames) \cup Range(TermNames)

RECURSIVE SeqsOfLen(_)
SeqsOfLen(n) ==
    IF n = 0 THEN {<<>>}
    ELSE {Append(s, x) : s \in SeqsOfLen(n - 1), x \in Syms}

\* The productions <<lhs, body>> of size k (1 + length of the body).
ProdsOfSize(k) == {<<l, b>> : l \in Range(NonTermNames), b \in SeqsOfLen(k - 1)}

\* The sets of productions of total size exactly n.
RECURSIVE ProdSetsOfSize(_)
ProdSetsOfSize(n) ==
    IF n = 0 THEN {{}}
    ELSE UNION { LET smaller == ProdSetsOfSize(n - k)
                 IN  UNION { {G \cup {p} : G \in {H \in smaller : p \notin H}}
                             : p \in ProdsOfSize(k) }
                 : k \in 1..n }

NonTermsIn(body) == Range(body) \cap Range(NonTermNames)

\* The nonterminals reachable from those of R through the productions P.
RECURSIVE Reach(_, _)
Reach(P, R) ==
    LET more == R \cup UNION {NonTermsIn(p[2]) : p \in {q \in P : q[1] \in R}}
    IN  IF more = R THEN R ELSE Reach(P, more)

\* No undefined nonterminal, no unreachable one: what the Grammar collaborator
\* is assumed to have resolved.
WellFormed(P) ==
    LET defined == {p[1] : p \in P}
    IN  /\ "S" \in defined
        /\ \A p \in P : NonTermsIn(p[2]) \subseteq defined
        /\ defined \subseteq Reach(P, {"S"})

ProductionSets == {P \in UNION {ProdSetsOfSize(n) : n \in 1..MaxSize} : WellFormed(P)}

Rank(sym) == CHOOSE i \in 1..Len(NonTermNames) + Len(TermNames) :
                 (NonTermNames \o TermNames)[i] = sym

RECURSIVE BodyCode(_)
BodyCode(b) == IF b = <<>> THEN 0 ELSE Rank(Head(b)) + (Cardinality(Syms) + 1) * BodyCode(Tail(b))

ProdKey(p) == Rank(p[1]) * (Cardinality(Syms) + 1) ^ (MaxSize + 1) + BodyCode(p[2])

\* The productions of P as a list: grouped by nonterminal, in a fixed order.
RECURSIVE SortProds(_)
SortProds(P) ==
    IF P = {} THEN <<>>
    ELSE LET m == CHOOSE p \in P : \A q \in P : ProdKey(p) <= ProdKey(q)
         IN  <<m>> \o SortProds(P \ {m})

\* first_set of a symbol sequence x, given the FIRST sets F of the nonterminals NT.
RECURSIVE first_of_seq(_, _, _)
first_of_seq(F, NT, x) ==
    IF x = <<>> THEN {None}
    ELSE LET fs == IF Head(x) \in NT THEN F[Head(x)] ELSE {Head(x)}
         IN  IF None \in fs
             THEN (fs \ {None}) \cup first_of_seq(F, NT, Tail(x))
             ELSE fs

\* FIRST sets of the nonterminals: the least fixed point.
RECURSIVE first_fix(_, _)
first_fix(prods, F) ==
    LET NT == DOMAIN F
        G == [nt \in NT |->
                F[nt] \cup UNION {first_of_seq(F, NT, prods[i][2]) :
                                  i \in {k \in 1..Len(prods) : prods[k][1] = nt}}]
    IN  IF G = F THEN F ELSE first_fix(prods, G)

\* Grammar(nonterms): the augmented grammar of the production set P.
Grammar(P) ==
    LET Defined(n) == \E p \in P : p[1] = n
        Used(t) == \E p \in P : t \in Range(p[2])
        prods == <<<<start, <<"S">>>>>> \o SortProds(P)
        nts == <<start>> \o SelectSeq(NonTermNames, Defined)
    IN  [productions |-> prods,
         nonterms |-> nts,
         terminals |-> SelectSeq(TermNames, Used),
         first_sets |-> first_fix(prods, [nt \in Range(nts) |-> {}])]

\* The expression grammar of the Dragon book:
\* E -> E + T | T, T -> T * F | F, F -> ( E ) | id.
TextbookGrammar ==
    LET prods == <<<<start, <<"E">>>>,
                   <<"E", <<"E", "+", "T">>>>, <<"E", <<"T">>>>,
                   <<"T", <<"T", "*", "F">>>>, <<"T", <<"F">>>>,
                   <<"F", <<"(", "E", ")">>>>, <<"F", <<"id">>>>>>
        nts == <<start, "E", "T", "F">>
    IN  [productions |-> prods,
         nonterms |-> nts,
         terminals |-> <<"+", "*", "(", ")", "id">>,
         first_sets |-> first_fix(prods, [nt \in Range(nts) |-> {}])]

\* The grammar of the Dragon book's LALR lookahead example:
\* S -> L = R | R, L -> * R | id, R -> L.
PointerGrammar ==
    LET prods == <<<<start, <<"S">>>>,
                   <<"S", <<"L", "=", "R">>>>, <<"S", <<"R">>>>,
                   <<"L", <<"*", "R">>>>, <<"L", <<"id">>>>,
                   <<"R", <<"L">>>>>>
        nts == <<start, "S", "L", "R">>
    IN  [productions |-> prods,
         nonterms |-> nts,
         terminals |-> <<"=", "*", "id">>,
         first_sets |-> first_fix(prods, [nt \in Range(nts) |-> {}])]

\* The inputs: every well-formed grammar over NonTermNames and TermNames of
\* total size MaxSize at most, and the two textbook grammars.
Grammars == {Grammar(P) : P \in ProductionSets} \cup {TextbookGrammar, PointerGrammar}

\* gr.productions[prod_index] = (pname, pbody), prod_index from 0.
pbody(g, prod_index) == g.productions[prod_index + 1][2]
pname(g, prod_index) == g.productions[prod_index + 1][1]

first_set(g, x) == first_of_seq(g.first_sets, Range(g.nonterms), x)

\* gr.nonterm_offset[nt]: the index of nt's first production.
nonterm_offset(g, nt) ==
    (CHOOSE i \in 1..Len(g.productions) :
        /\ g.productions[i][1] = nt
        /\ \A k \in 1..(i - 1) : g.productions[k][1] # nt) - 1

\* The indices of nt's productions: nt_offset + idx, idx in range(len(nt.productions)).
prods_of(g, nt) == {i - 1 : i \in {k \in 1..Len(g.productions) : g.productions[k][1] = nt}}

(***************************************************************************)
(* LR(0) automaton collaborator (parsing/lr_zero.py, not part of src/).    *)
(***************************************************************************)
\* The symbol an item's dot points at, None for a completed item.
at_dot(g, item) ==
    IF item[2] = Len(pbody(g, item[1])) THEN None ELSE pbody(g, item[1])[item[2] + 1]

RECURSIVE lr0_closure(_, _)
lr0_closure(g, items) ==
    LET new == {<<p, 0>> : p \in UNION {prods_of(g, at_dot(g, it)) : it \in items}} \ items
    IN  IF new = {} THEN items ELSE lr0_closure(g, items \cup new)

lr0_goto(g, items, sym) ==
    lr0_closure(g, {<<it[1], it[2] + 1>> : it \in {x \in items : at_dot(g, x) = sym}})

\* lr_zero.kernels(state): the items not introduced by closure.
kernels(item_set) == {it \in item_set : it[2] > 0 \/ it[1] = 0}

\* The transitions of state i (1-based in the list) on the symbols from the
\* k-th on, new states appended in the order of the symbols.
RECURSIVE lr0_expand(_, _, _, _, _, _)
lr0_expand(g, syms, states, trans, i, k) ==
    IF k > Len(syms) THEN [states |-> states, trans |-> trans]
    ELSE LET nxt == lr0_goto(g, states[i], syms[k])
         IN  IF nxt = {} THEN lr0_expand(g, syms, states, trans, i, k + 1)
             ELSE IF \E j \in 1..Len(states) : states[j] = nxt
             THEN lr0_expand(g, syms, states,
                      trans \cup {<<i - 1, syms[k],
                                    (CHOOSE j \in 1..Len(states) : states[j] = nxt) - 1>>},
                      i, k + 1)
             ELSE lr0_expand(g, syms, Append(states, nxt),
                      trans \cup {<<i - 1, syms[k], Len(states)>>}, i, k + 1)

\* States are numbered in the order they are found, symbols tried in a fixed order.
RECURSIVE lr0_explore(_, _, _, _, _)
lr0_explore(g, syms, states, trans, i) ==
    IF i > Len(states) THEN [states |-> states, trans |-> trans]
    ELSE LET r == lr0_expand(g, syms, states, trans, i, 1)
         IN  lr0_explore(g, syms, r.states, r.trans, i + 1)

\* lr_zero.get_automaton(gr): states (by id from 0) and the goto map
\* (state id, symbol) -> state id.
get_automaton(g) ==
    LET r == lr0_explore(g, g.nonterms \o g.terminals,
                         <<lr0_closure(g, {<<0, 0>>})>>, {}, 1)
    IN  [states |-> [i \in 0..(Len(r.states) - 1) |-> r.states[i + 1]],
         goto |-> [k \in {<<t[1], t[2]>> : t \in r.trans} |->
                      CHOOSE j \in 0..(Len(r.states) - 1) : <<k[1], k[2], j>> \in r.trans]]

(***************************************************************************)
(* parsing/lalr_one.py: closure and goto on lookahead items.               *)
(***************************************************************************)
\* One round of closure's while loop: the items the round adds.
closure_new_elements(g, result, current) ==
    UNION { LET item == li[1]
                lookahead == li[2]
                nt == at_dot(g, item)
            IN  IF nt \notin Range(g.nonterms) THEN {}
                ELSE LET body == pbody(g, item[1])
                         following_symbols ==
                             SubSeq(body, item[2] + 2, Len(body)) \o <<lookahead>>
                         following_terminals == first_set(g, following_symbols) \ {None}
                     IN  {<<<<p, 0>>, term>> : p \in prods_of(g, nt),
                                               term \in following_terminals}
            : li \in current } \ result

RECURSIVE closure_loop(_, _, _)
closure_loop(g, result, current) ==
    IF current = {} THEN result
    ELSE LET new_elements == closure_new_elements(g, result, current)
         IN  closure_loop(g, result \cup new_elements, new_elements)

closure(g, item_set) == closure_loop(g, item_set, item_set)

goto(g, item_set, inp) ==
    closure(g, {<<<<li[1][1], li[1][2] + 1>>, li[2]>> :
                    li \in {x \in item_set : at_dot(g, x[1]) = inp}})

(***************************************************************************)
(* get_canonical_collection, steps 1 to 3: the propagation table.          *)
(***************************************************************************)
\* Mutant: the start item is seeded with the free marker.
seed_lookahead_free == free_symbol

\* table[0][(0, 0)].lookaheads.add(gr.end_of_input())
seed_lookahead == end_of_input

\* Mutant: the free marker is not told apart: every advance is a lookahead.
is_propagation_never(next_symbol) == FALSE

\* if next_symbol == gr.free_symbol(): a propagation edge, else a spontaneous lookahead.
is_propagation(next_symbol) == next_symbol = free_symbol

\* state_symbols = [x[1] for x, y in dfa.goto.items() if x[0] == i_state_id]
state_symbols(d, i_state_id) == {x[2] : x \in {y \in DOMAIN d.goto : y[1] = i_state_id}}

\* What kernel item i_item of state i_state_id contributes: the triples
\* <<j_state_id, j_item, next_symbol>> of the items of closure_set whose dot
\* points at a symbol the state has a transition on.
advances(g, d, i_state_id, i_item) ==
    LET closure_set == closure(g, {<<i_item, free_symbol>>})
    IN  {<<d.goto[<<i_state_id, at_dot(g, li[1])>>], <<li[1][1], li[1][2] + 1>>, li[2]>> :
            li \in {x \in closure_set : at_dot(g, x[1]) \in state_symbols(d, i_state_id)}}

\* The table after steps 2 and 3: per state and kernel item an
\* LrZeroItemTableEntry (propagates_to, lookaheads).
initial_table(g, d) ==
    LET kstates == [i \in DOMAIN d.states |-> kernels(d.states[i])]
        adv == [i \in DOMAIN d.states |-> [k \in kstates[i] |-> advances(g, d, i, k)]]
        all == UNION {UNION {adv[i][k] : k \in kstates[i]} : i \in DOMAIN d.states}
    IN  [j \in DOMAIN d.states |-> [item \in kstates[j] |->
            [propagates_to |-> {<<a[1], a[2]>> : a \in {x \in adv[j][item] : is_propagation(x[3])}},
             lookaheads |->
                 {a[3] : a \in {x \in all : x[1] = j /\ x[2] = item /\ ~is_propagation(x[3])}}
                 \cup (IF j = 0 /\ item = <<0, 0>> THEN {seed_lookahead} ELSE {})]]]

\* j_cell.lookaheads.update(i_cell.lookaheads)
propagate(i_lookaheads, j_lookaheads) == j_lookaheads \cup i_lookaheads

\* Mutant: <= for <, the flag is set by every edge.
update_repeat_le(rep, old_lookaheads, new_lookaheads) ==
    rep \/ Cardinality(old_lookaheads) <= Cardinality(new_lookaheads)

\* Mutant: repeat = (len before < len after), the last edge alone decides.
update_repeat_overwrite(rep, old_lookaheads, new_lookaheads) ==
    Cardinality(old_lookaheads) < Cardinality(new_lookaheads)

\* Mutant: the comparison the wrong way round, the flag is never set.
update_repeat_never(rep, old_lookaheads, new_lookaheads) ==
    rep \/ Cardinality(new_lookaheads) < Cardinality(old_lookaheads)

\* j_cell_lookaheads_len = len(j_cell.lookaheads) before the update;
\* if j_cell_lookaheads_len < len(j_cell.lookaheads): repeat = True
update_repeat(rep, old_lookaheads, new_lookaheads) ==
    rep \/ Cardinality(old_lookaheads) < Cardinality(new_lookaheads)

\* The collection: per state the closure of its kernel items with their lookaheads.
build_collection(g, tbl) ==
    [i \in DOMAIN tbl |->
        closure(g, UNION {{<<i_item, sym>> : sym \in tbl[i][i_item].lookaheads} :
                          i_item \in DOMAIN tbl[i]})]

(***************************************************************************)
(* ParsingTable.__setup_from_grammar.                                      *)
(***************************************************************************)
\* goto[state_id][nonterminal] of a nonterminal with no transition (Python's None).
NoState == -1

drop_lalr_one_itemset_lookaheads(itemset) == {li[1] : li \in itemset}

\* id_from_core = {ccol_core[i]: i for i in range(len(ccol))}: of two states with
\* the same core the later one keeps the key.
id_from_core(cc) ==
    [c \in {drop_lalr_one_itemset_lookaheads(cc[i]) : i \in DOMAIN cc} |->
        CHOOSE i \in DOMAIN cc :
            /\ drop_lalr_one_itemset_lookaheads(cc[i]) = c
            /\ \A k \in DOMAIN cc : drop_lalr_one_itemset_lookaheads(cc[k]) = c => k <= i]

\* self.terminals, self.nonterms
self_terminals(g) == Range(g.terminals) \cup {end_of_input}
self_nonterms(g) == Range(Tail(g.nonterms))

\* isinstance(terminal, str): a symbol of a body that is no NonTerminal.
is_terminal(g, sym) == sym # None /\ sym \notin Range(g.nonterms)

\* Mutant: every completed item is taken for the start production's.
is_start_production_any(prod_index) == prod_index >= 0

\* if prod_index == 0: an item of the artificial starting symbol.
is_start_production(prod_index) == prod_index = 0

completed(g, cc, state_id) == {li \in cc[state_id] : at_dot(g, li[1]) = None}

\* The terminals state_id gets a shift entry on: some item's dot points at the
\* terminal and goto on it is not empty.
shift_symbols(g, cc, state_id) ==
    {t \in {at_dot(g, li[1]) : li \in cc[state_id]} :
        is_terminal(g, t) /\ goto(g, cc[state_id], t) # {}}

\* The exceptions the loop over the items of state_id can raise.
item_errors(g, cc, state_id) ==
    LET idc == id_from_core(cc)
    IN  (IF \E t \in shift_symbols(g, cc, state_id) :
                drop_lalr_one_itemset_lookaheads(goto(g, cc[state_id], t)) \notin DOMAIN idc
         THEN {"KeyError"} ELSE {})
        \cup (IF \E li \in completed(g, cc, state_id) :
                    is_start_production(li[1][1]) /\ li[2] # end_of_input
              THEN {"AssertionError"} ELSE {})
        \cup (IF \E li \in completed(g, cc, state_id) :
                    ~is_start_production(li[1][1]) /\ li[2] \notin self_terminals(g)
              THEN {"KeyError"} ELSE {})

\* The exceptions the loop over the nonterminals of state_id can raise.
goto_errors(g, cc, state_id) ==
    LET idc == id_from_core(cc)
    IN  IF \E nt \in self_nonterms(g) :
              /\ goto(g, cc[state_id], nt) # {}
              /\ drop_lalr_one_itemset_lookaheads(goto(g, cc[state_id], nt)) \notin DOMAIN idc
        THEN {"KeyError"} ELSE {}

\* The exceptions construction can end with: those of the first state that
\* raises one (its items are visited before its nonterminals).
setup_errors(g, cc) ==
    LET bad == {s \in DOMAIN cc : item_errors(g, cc, s) \cup goto_errors(g, cc, s) # {}}
    IN  IF bad = {} THEN {}
        ELSE LET s == CHOOSE x \in bad : \A y \in bad : x <= y
             IN  IF item_errors(g, cc, s) # {} THEN item_errors(g, cc, s)
                 ELSE goto_errors(g, cc, s)

\* action[state_id][t] once the loop over the items of state_id is over.
action_entries(g, cc, state_id, t) ==
    LET idc == id_from_core(cc)
    IN  {<<"shift", idc[drop_lalr_one_itemset_lookaheads(goto(g, cc[state_id], x))]>> :
            x \in shift_symbols(g, cc, state_id) \cap {t}}
        \cup {<<"reduce", li[1][1]>> :
                li \in {x \in completed(g, cc, state_id) :
                           ~is_start_production(x[1][1]) /\ x[2] = t}}
        \cup (IF /\ t = end_of_input
                 /\ \E li \in completed(g, cc, state_id) : is_start_production(li[1][1])
              THEN {<<"accept", "">>} ELSE {})

\* goto[state_id][nt] once the loop over the nonterminals is over.
goto_entry(g, cc, state_id, nt) ==
    LET next_state == goto(g, cc[state_id], nt)
    IN  IF next_state = {} THEN NoState
        ELSE id_from_core(cc)[drop_lalr_one_itemset_lookaheads(next_state)]

(***************************************************************************)
(* The construction as a state machine.  The loops of step 4 visit the     *)
(* states in order, the kernel items of a state (a dict filled from a      *)
(* frozenset) and the edges of an item (a set) in any order.               *)
(***************************************************************************)
VARIABLES
    gr,           \* the grammar
    pc,           \* "start", "while", "for", "collect", "setup", "done", "error"
    dfa,          \* lr_zero.get_automaton(gr)
    table,        \* the propagation table
    repeat,       \* the flag of the while loop
    passes,       \* how many times the body of the while loop was entered
    i_state_id,   \* step 4: the state being visited
    items_left,   \* step 4: its kernel items not visited yet in this pass
    i_item,       \* step 4: the kernel item being visited
    edges_left,   \* step 4: its edges not visited yet
    ccol,         \* the canonical collection
    self_action,  \* ParsingTable.action
    self_goto,    \* ParsingTable.goto
    err           \* the exception construction ended with, "" for none

vars == <<gr, pc, dfa, table, repeat, passes, i_state_id, items_left, i_item,
          edges_left, ccol, self_action, self_goto, err>>

Unset == <<>>

\* terminal-alphabet size x total item count (the entries of the table).
PassBound ==
    (Len(gr.terminals) + 1)
        * Cardinality(UNION {{<<i, k>> : k \in DOMAIN table[i]} : i \in DOMAIN table})

Init ==
    /\ gr \in Grammars
    /\ pc = "start"
    /\ dfa = Unset
    /\ table = Unset
    /\ repeat = FALSE
    /\ passes = 0
    /\ i_state_id = 0
    /\ items_left = {}
    /\ i_item = Unset
    /\ edges_left = {}
    /\ ccol = Unset
    /\ self_action = Unset
    /\ self_goto = Unset
    /\ err = ""

\* Steps 1 to 3, and repeat = True.
BuildTable ==
    /\ pc = "start"
    /\ dfa' = get_automaton(gr)
    /\ table' = initial_table(gr, dfa')
    /\ repeat' = TRUE
    /\ pc' = "while"
    /\ UNCHANGED <<gr, passes, i_state_id, items_left, i_item, edges_left, ccol,
                   self_action, self_goto, err>>

\* while repeat: repeat = False, and the first state's items are up.
EnterPass ==
    /\ pc = "while"
    /\ repeat
    /\ passes <= PassBound
    /\ repeat' = FALSE
    /\ passes' = passes + 1
    /\ i_state_id' = 0
    /\ items_left' = DOMAIN table[0]
    /\ i_item' = Unset
    /\ edges_left' = {}
    /\ pc' = "for"
    /\ UNCHANGED <<gr, dfa, table, ccol, self_action, self_goto, err>>

\* for i_item, i_cell in table[i_state_id].items()
NextItem ==
    /\ pc = "for"
    /\ edges_left = {}
    /\ \E it \in items_left :
        /\ i_item' = it
        /\ items_left' = items_left \ {it}
        /\ edges_left' = table[i_state_id][it].propagates_to
    /\ UNCHANGED <<gr, pc, dfa, table, repeat, passes, i_state_id, ccol,
                   self_action, self_goto, err>>

\* for j_state_id, j_item in i_cell.propagates_to: propagate the lookaheads.
Propagate ==
    /\ pc = "for"
    /\ \E e \in edges_left :
        LET j_lookaheads == table[e[1]][e[2]].lookaheads
            new == propagate(table[i_state_id][i_item].lookaheads, j_lookaheads)
        IN  /\ table' = [table EXCEPT ![e[1]][e[2]].lookaheads = new]
            /\ repeat' = update_repeat(repeat, j_lookaheads, new)
            /\ edges_left' = edges_left \ {e}
    /\ UNCHANGED <<gr, pc, dfa, passes, i_state_id, items_left, i_item, ccol,
                   self_action, self_goto, err>>

\* for i_state_id in range(len(table)): the next state.
NextState ==
    /\ pc = "for"
    /\ edges_left = {}
    /\ items_left = {}
    /\ i_state_id + 1 \in DOMAIN table
    /\ i_state_id' = i_state_id + 1
    /\ items_left' = DOMAIN table[i_state_id + 1]
    /\ i_item' = Unset
    /\ UNCHANGED <<gr, pc, dfa, table, repeat, passes, edges_left, ccol,
                   self_action, self_goto, err>>

\* The last state is done: back to the test of the while loop.
EndPass ==
    /\ pc = "for"
    /\ edges_left = {}
    /\ items_left = {}
    /\ i_state_id + 1 \notin DOMAIN table
    /\ pc' = "while"
    /\ i_item' = Unset
    /\ UNCHANGED <<gr, dfa, table, repeat, passes, i_state_id, items_left, edges_left,
                   ccol, self_action, self_goto, err>>

\* The while loop is left, and the collection is built and returned.
BuildCollection ==
    /\ pc = "while"
    /\ ~repeat
    /\ ccol' = build_collection(gr, table)
    /\ pc' = "setup"
    /\ UNCHANGED <<gr, dfa, table, repeat, passes, i_state_id, items_left, i_item,
                   edges_left, self_action, self_goto, err>>

\* __setup_from_grammar after get_canonical_collection, with no exception.
SetupTables ==
    /\ pc = "setup"
    /\ setup_errors(gr, ccol) = {}
    /\ self_action' = [s \in DOMAIN ccol |-> [t \in self_terminals(gr) |->
                          action_entries(gr, ccol, s, t)]]
    /\ self_goto' = [s \in DOMAIN ccol |-> [nt \in self_nonterms(gr) |->
                          goto_entry(gr, ccol, s, nt)]]
    /\ pc' = "done"
    /\ UNCHANGED <<gr, dfa, table, repeat, passes, i_state_id, items_left, i_item,
                   edges_left, ccol, err>>

\* __setup_from_grammar ending with an exception: no table is returned.
SetupRaises ==
    /\ pc = "setup"
    /\ err' \in setup_errors(gr, ccol)
    /\ pc' = "error"
    /\ UNCHANGED <<gr, dfa, table, repeat, passes, i_state_id, items_left, i_item,
                   edges_left, ccol, self_action, self_goto>>

Next ==
    \/ BuildTable
    \/ EnterPass
    \/ NextItem
    \/ Propagate
    \/ NextState
    \/ EndPass
    \/ BuildCollection
    \/ SetupTables
    \/ SetupRaises

Spec == Init /\ [][Next]_vars

(***************************************************************************)
(* Step 4 run with the kernel items and the edges visited in one fixed     *)
(* order (by state, then item, then target), as a function of the table.   *)
(***************************************************************************)
item_code(k) == k[1] * (MaxSize + 1) + k[2]

all_edges(tbl) ==
    UNION {UNION {{<<i, k, e[1], e[2]>> : e \in tbl[i][k].propagates_to} :
                  k \in DOMAIN tbl[i]} : i \in DOMAIN tbl}

edge_code(tbl, e) ==
    LET B == (MaxSize + 2) * (MaxSize + 1)
        N == Cardinality(DOMAIN tbl) + 1
    IN  ((e[1] * B + item_code(e[2])) * N + e[3]) * B + item_code(e[4])

RECURSIVE sort_edges(_, _)
sort_edges(tbl, E) ==
    IF E = {} THEN <<>>
    ELSE LET m == CHOOSE e \in E : \A f \in E : edge_code(tbl, e) <= edge_code(tbl, f)
         IN  <<m>> \o sort_edges(tbl, E \ {m})

RECURSIVE in_order_pass(_, _, _)
in_order_pass(tbl, rep, edges) ==
    IF edges = <<>> THEN [table |-> tbl, repeat |-> rep]
    ELSE LET e == Head(edges)
             old == tbl[e[3]][e[4]].lookaheads
             new == propagate(tbl[e[1]][e[2]].lookaheads, old)
         IN  in_order_pass([tbl EXCEPT ![e[3]][e[4]].lookaheads = new],
                           update_repeat(rep, old, new), Tail(edges))

RECURSIVE in_order_loop(_, _)
in_order_loop(tbl, edges) ==
    LET r == in_order_pass(tbl, FALSE, edges)
    IN  IF r.repeat THEN in_order_loop(r.table, edges) ELSE r.table

in_order_run(tbl) == in_order_loop(tbl, sort_edges(tbl, all_edges(tbl)))

(***************************************************************************)
(* Properties.                                                             *)
(***************************************************************************)
\* The while loop of step 4 has been left.
LoopExited == (pc = "while" /\ ~repeat) \/ pc \in {"setup", "done", "error"}

\* get_canonical_collection has returned.
CollectionBuilt == pc \in {"setup", "done", "error"}

entries(tbl) == UNION {{<<i, k>> : k \in DOMAIN tbl[i]} : i \in DOMAIN tbl}

accept_entry == <<"accept", "">>

start_item_completed == <<0, Len(pbody(gr, 0))>>

reduce_entries(cell) == {e \in cell : e[1] = "reduce"}
shift_entries(cell) == {e \in cell : e[1] = "shift"}

\* Two distinct productions completed in one state of the collection under one lookahead.
ReduceReduceConflict ==
    \E s \in DOMAIN ccol : \E x \in completed(gr, ccol, s), y \in completed(gr, ccol, s) :
        /\ x[2] = y[2]
        /\ x[1][1] # y[1][1]
        /\ x[1][1] # 0
        /\ y[1][1] # 0

\* C1 (as stated): a cell of the ACTION table that holds accept is the cell of
\* end-of-input, comes from the completed item of production 0 in that state,
\* and holds nothing but accept.
C1_AcceptAlone ==
    pc = "done" =>
        \A s \in DOMAIN self_action : \A t \in DOMAIN self_action[s] :
            accept_entry \in self_action[s][t] =>
                /\ t = end_of_input
                /\ <<start_item_completed, end_of_input>> \in ccol[s]
                /\ self_action[s][t] = {accept_entry}

\* C1 (amended): a cell that holds accept is the cell of end-of-input, comes
\* from the completed item of production 0 in that state, and holds no shift;
\* what else it holds is reduce(p) for productions p completed in that state
\* with lookahead end-of-input.
C1_AcceptCell ==
    pc = "done" =>
        \A s \in DOMAIN self_action : \A t \in DOMAIN self_action[s] :
            accept_entry \in self_action[s][t] =>
                /\ t = end_of_input
                /\ <<start_item_completed, end_of_input>> \in ccol[s]
                /\ \A e \in self_action[s][t] \ {accept_entry} :
                    /\ e[1] = "reduce"
                    /\ e[2] # 0
                    /\ <<<<e[2], Len(pbody(gr, e[2]))>>, end_of_input>> \in ccol[s]

\* A table is built whose accept cell also holds a reduce.
C1_Witness ==
    /\ pc = "done"
    /\ \E s \in DOMAIN self_action :
        /\ accept_entry \in self_action[s][end_of_input]
        /\ reduce_entries(self_action[s][end_of_input]) # {}

\* C2: goto[s][nt] is None if and only if the LR(0) automaton has no
\* transition from s on nt.
C2_GotoIffTransition ==
    pc = "done" =>
        \A s \in DOMAIN self_goto : \A nt \in DOMAIN self_goto[s] :
            (self_goto[s][nt] = NoState) <=> (<<s, nt>> \notin DOMAIN dfa.goto)

\* C3: the reduce entries of action[s][a] are exactly the reduce(p) of the
\* productions p # 0 completed in state s with lookahead a, a shift on a
\* terminal some item's dot points at is in the cell too, and a grammar with a
\* reduce/reduce conflict is built without an exception.
C3_ConflictsRecorded ==
    /\ pc = "done" =>
        \A s \in DOMAIN self_action : \A a \in DOMAIN self_action[s] :
            /\ reduce_entries(self_action[s][a]) =
                   {<<"reduce", p>> :
                       p \in {q \in 1..(Len(gr.productions) - 1) :
                                 <<<<q, Len(pbody(gr, q))>>, a>> \in ccol[s]}}
            /\ (\E li \in ccol[s] : at_dot(gr, li[1]) = a)
                   => shift_entries(self_action[s][a]) # {}
    /\ (CollectionBuilt /\ ReduceReduceConflict) => pc # "error"

\* C4: the completed item of production 0 has lookahead end-of-input and no
\* other, in the table and in the collection, and the assertion never fails.
C4_StartItemLookahead ==
    /\ LoopExited =>
        \A i \in DOMAIN table :
            start_item_completed \in DOMAIN table[i] =>
                table[i][start_item_completed].lookaheads = {end_of_input}
    /\ CollectionBuilt =>
        \A s \in DOMAIN ccol : \A li \in ccol[s] :
            li[1] = start_item_completed => li[2] = end_of_input
    /\ err # "AssertionError"

\* The collection holds the completed item of production 0 and a table was built from it.
C4_Witness ==
    /\ pc = "done"
    /\ \E s \in DOMAIN ccol : <<start_item_completed, end_of_input>> \in ccol[s]

\* C5: the body of the while loop is entered at most
\* (terminal-alphabet size x number of items of the table) times.
C5_PassesBounded == pc # "start" => passes <= PassBound

\* The loop is left after three passes or more.
C5_Witness == LoopExited /\ passes >= 3

\* C6: whatever order the items and edges were visited in, the table, the
\* collection and the ACTION / GOTO tables (or the exception) are those of
\* the run that visits them in the fixed order.
C6_Deterministic ==
    CollectionBuilt =>
        LET ref_table == in_order_run(initial_table(gr, get_automaton(gr)))
            ref_ccol == build_collection(gr, ref_table)
        IN  /\ [i \in DOMAIN table |-> [k \in DOMAIN table[i] |-> table[i][k].lookaheads]]
                 = [i \in DOMAIN ref_table |->
                       [k \in DOMAIN ref_table[i] |-> ref_table[i][k].lookaheads]]
            /\ ccol = ref_ccol
            /\ pc = "done" =>
                /\ self_action = [s \in DOMAIN ref_ccol |-> [t \in self_terminals(gr) |->
                                     action_entries(gr, ref_ccol, s, t)]]
                /\ self_goto = [s \in DOMAIN ref_ccol |-> [nt \in self_nonterms(gr) |->
                                   goto_entry(gr, ref_ccol, s, nt)]]
            /\ pc = "error" => err \in setup_errors(gr, ref_ccol)

\* A table was built after a pass that visited some state's items in an order
\* with a choice: the state has two kernel items or more with edges.
C6_Witness ==
    /\ pc = "done"
    /\ passes >= 2
    /\ \E i \in DOMAIN table : \E k1 \in DOMAIN table[i], k2 \in DOMAIN table[i] :
        /\ k1 # k2
        /\ table[i][k1].propagates_to # {}
        /\ table[i][k2].propagates_to # {}

\* C7: no two states of the collection have the same core.
C7_CoresUnique ==
    CollectionBuilt =>
        \A i \in DOMAIN ccol : \A j \in DOMAIN ccol :
            i # j => drop_lalr_one_itemset_lookaheads(ccol[i])
                         # drop_lalr_one_itemset_lookaheads(ccol[j])

\* C8: the free marker is in no lookahead set of the table at any point, is
\* the lookahead of no item of the collection, and keys no ACTION cell.
C8_FreeSymbolNeverLeaks ==
    /\ pc # "start" =>
        \A e \in entries(table) : free_symbol \notin table[e[1]][e[2]].lookaheads
    /\ CollectionBuilt =>
        \A s \in DOMAIN ccol : \A li \in ccol[s] : li[2] # free_symbol
    /\ pc = "done" =>
        \A s \in DOMAIN self_action : free_symbol \notin DOMAIN self_action[s]

\* A table was built from a propagation table with edges (closure items that
\* carried the free marker) and spontaneous lookaheads (items that did not).
C8_Witness ==
    /\ pc = "done"
    /\ \E e \in entries(table) : table[e[1]][e[2]].propagates_to # {}
    /\ \E e \in entries(initial_table(gr, dfa)) :
        initial_table(gr, dfa)[e[1]][e[2]].lookaheads \ {end_of_input} # {}

\* The entries reachable from those of R along propagation edges.
RECURSIVE reachable_entries(_, _)
reachable_entries(tbl, R) ==
    LET more == R \cup UNION {tbl[e[1]][e[2]].propagates_to : e \in R}
    IN  IF more = R THEN R ELSE reachable_entries(tbl, more)

\* C9: when the loop is left, every edge's source lookaheads are among its
\* target's, and every lookahead of an entry was, before the loop, a lookahead
\* of an entry the entry is reachable from.
C9_LeastFixedPoint ==
    LoopExited =>
        LET before == initial_table(gr, dfa)
        IN  /\ \A e \in entries(table) : \A f \in table[e[1]][e[2]].propagates_to :
                table[e[1]][e[2]].lookaheads \subseteq table[f[1]][f[2]].lookaheads
            /\ \A e \in entries(table) : \A t \in table[e[1]][e[2]].lookaheads :
                \E src \in entries(before) :
                    /\ t \in before[src[1]][src[2]].lookaheads
                    /\ e \in reachable_entries(before, {src})

\* The loop is left with a lookahead that reached an entry over two edges or more.
C9_Witness ==
    /\ LoopExited
    /\ LET before == initial_table(gr, dfa)
       IN  \E e \in entries(table) : \E t \in table[e[1]][e[2]].lookaheads :
               \A src \in entries(before) :
                   t \in before[src[1]][src[2]].lookaheads =>
                       /\ e # src
                       /\ e \notin before[src[1]][src[2]].propagates_to

\* C10: no lookup of a core fails, every shift(t) of action[s][a] has
\* t = the automaton's goto[(s, a)], and every goto[s][nt] that is set is the
\* automaton's goto[(s, nt)].
C10_TargetsResolve ==
    /\ err # "KeyError"
    /\ pc = "done" =>
        /\ \A s \in DOMAIN self_action : \A a \in DOMAIN self_action[s] :
            \A e \in shift_entries(self_action[s][a]) :
                <<s, a>> \in DOMAIN dfa.goto /\ e[2] = dfa.goto[<<s, a>>]
        /\ \A s \in DOMAIN self_goto : \A nt \in DOMAIN self_goto[s] :
            self_goto[s][nt] # NoState =>
                <<s, nt>> \in DOMAIN dfa.goto /\ self_goto[s][nt] = dfa.goto[<<s, nt>>]
====
